---- MODULE Spec2Model ----
(***************************************************************************)
(* smartmon.py: one run of the S.M.A.R.T. textfile collector.              *)
(*                                                                         *)
(* Text that the program inspects character by character (device type     *)
(* selectors, attribute values, raw values, NVMe values, health and error  *)
(* log lines) is a sequence of one-character strings.  Text that is only   *)
(* compared as a whole (paths, attribute names, info keys) is a string.    *)
(* The output of a command is what the parser sees after its line and      *)
(* field splitting: a sequence of lines, each a sequence of fields.        *)
(***************************************************************************)
EXTENDS Integers, Sequences, FiniteSets, TLC

VARIABLES
    pc,            \* position of main / of the collect_disks_smart_metrics generator
    failure,       \* the uncaught exception that ended the run, "none" while running
    wakeup_disks,  \* args.wakeup_disks
    now,           \* the timestamp taken at smartmon.py:377
    devices,       \* the Device tuples find_devices yields, in scan order
    i,             \* index in devices of the device being collected
    metrics,       \* the Metric tuples yielded so far (the list built at line 427)
    mark,          \* mark[k] = number of metrics yielded before device k started
    calls,         \* every smart_ctl invocation so far: [idx, kind]
    lastCall,      \* the latest invocation with its exit status and output
    sorted,        \* metrics after metrics.sort (line 428)
    out            \* the lines written to stdout

vars == <<pc, failure, wakeup_disks, now, devices, i, metrics, mark, calls,
          lastCall, sorted, out>>

\* ---------------------------------------------------------------- bounds

MaxScanLines == 2

MaxRows == 3

\* ------------------------------------------------------- character text

Digits == {"0", "1", "2", "3", "4", "5", "6", "7", "8", "9"}

DigitValue(c) ==
    CASE c = "0" -> 0 [] c = "1" -> 1 [] c = "2" -> 2 [] c = "3" -> 3
      [] c = "4" -> 4 [] c = "5" -> 5 [] c = "6" -> 6 [] c = "7" -> 7
      [] c = "8" -> 8 [] c = "9" -> 9

AllDigits(s) == \A k \in 1..Len(s) : s[k] \in Digits

\* str.startswith
StartsWith(s, p) == Len(s) >= Len(p) /\ SubSeq(s, 1, Len(p)) = p

EndsWith(s, p) == Len(s) >= Len(p) /\ SubSeq(s, Len(s) - Len(p) + 1, Len(s)) = p

\* str.partition(sep)[2]: the text after the first sep, empty when sep is absent
RECURSIVE PartitionAfter(_, _)
PartitionAfter(s, sep) ==
    IF s = <<>> THEN <<>>
    ELSE IF Head(s) = sep THEN Tail(s)
    ELSE PartitionAfter(Tail(s), sep)

\* str.replace(p, ''): every occurrence of p removed, left to right
RECURSIVE Remove(_, _)
Remove(s, p) ==
    IF Len(s) < Len(p) THEN s
    ELSE IF SubSeq(s, 1, Len(p)) = p THEN Remove(SubSeq(s, Len(p) + 1, Len(s)), p)
    ELSE <<Head(s)>> \o Remove(Tail(s), p)

\* ' '.join(tokens)
RECURSIVE Join(_)
Join(tokens) ==
    IF tokens = <<>> THEN <<>>
    ELSE IF Len(tokens) = 1 THEN Head(tokens)
    ELSE Head(tokens) \o <<" ">> \o Join(Tail(tokens))

\* the group of re.match(r'^(\d+)', s): the leading run of digits, empty = no match
RECURSIVE LeadingDigits(_)
LeadingDigits(s) ==
    IF s = <<>> \/ Head(s) \notin Digits THEN <<>>
    ELSE <<Head(s)>> \o LeadingDigits(Tail(s))

RECURSIVE StripLeft(_)
StripLeft(s) == IF s # <<>> /\ Head(s) = " " THEN StripLeft(Tail(s)) ELSE s

RECURSIVE StripRight(_)
StripRight(s) ==
    IF s # <<>> /\ s[Len(s)] = " " THEN StripRight(SubSeq(s, 1, Len(s) - 1)) ELSE s

RECURSIVE ToNat(_)
ToNat(s) == IF s = <<>> THEN 0 ELSE 10 * ToNat(SubSeq(s, 1, Len(s) - 1)) + DigitValue(s[Len(s)])

\* ------------------------------------------------------------- Metric

\* Metric = namedtuple('Metric', 'name labels value'); a value is a Python
\* bool, int or str, kept apart by its type
Metric(name, labels, value) == [name |-> name, labels |-> labels, value |-> value]

VBool(b) == <<"bool", b>>

VInt(n) == <<"int", n>>

VStr(s) == <<"str", s>>

\* decimal.Decimal(metric.value) in metric_format: bools and ints convert, a
\* str converts when, stripped of blanks, it is an optionally signed run of
\* digits (the numeric forms the model's texts can take); anything else raises
DecimalOf(value) ==
    IF value[1] = "bool" THEN [ok |-> TRUE, n |-> IF value[2] THEN 1 ELSE 0]
    ELSE IF value[1] = "int" THEN [ok |-> TRUE, n |-> value[2]]
    ELSE LET s == StripRight(StripLeft(value[2]))
             neg == s # <<>> /\ Head(s) = "-"
             body == IF s # <<>> /\ Head(s) \in {"-", "+"} THEN Tail(s) ELSE s
         IN IF body # <<>> /\ AllDigits(body)
            THEN [ok |-> TRUE, n |-> IF neg THEN 0 - ToNat(body) ELSE ToNat(body)]
            ELSE [ok |-> FALSE, n |-> 0]

\* --------------------------------------------------------------- Device

Sat == <<"s", "a", "t">>

SatPlus0 == <<"s", "a", "t", "+", "0">>

Nvme == <<"n", "v", "m", "e">>

Scsi == <<"s", "c", "s", "i">>

Device(path, type) == [path |-> path, type |-> type]

\* Device.base_labels
base_labels(device) ==
    LET disk == PartitionAfter(device.type, "+")
    IN [device |-> device.path, disk |-> IF disk = <<>> THEN <<"0">> ELSE disk]

\* ------------------------------------------------------------ smart_ctl

\* check=False ignored: every non-zero exit raises
Raises_m(check, ok) == ~ok

\* subprocess.run(..., check=check) raises CalledProcessError on a non-zero exit
Raises(check, ok) == check /\ ~ok

Call(idx, kind) == [idx |-> idx, kind |-> kind]

Result(idx, kind, r) == [idx |-> idx, kind |-> kind, ok |-> r.ok, out |-> r.out]

NoCall == [idx |-> 0, kind |-> "none", ok |-> TRUE, out |-> <<>>]

\* every command either exits 0 or not, with some output either way
Results(outputs) == [ok : BOOLEAN, out : outputs]

\* --------------------------------------------------------- find_devices

\* parser.parse_args(tokens[1:]).type for the option lists smartctl --scan-open
\* prints: -d TYPE or --device TYPE
ParseArgsType(args) == IF args[1] \in {"-d", "--device"} THEN args[2] ELSE <<>>

\* find_devices: a line that tokenizes to nothing (blank, or only a comment)
\* is skipped, every other line is one Device
RECURSIVE find_devices(_)
find_devices(lines) ==
    IF lines = <<>> THEN <<>>
    ELSE LET tokens == Head(lines)
         IN IF tokens = <<>> THEN find_devices(Tail(lines))
            ELSE <<Device(tokens[1], ParseArgsType(Tail(tokens)))>>
                     \o find_devices(Tail(lines))

\* ---------------------------------------------------------- device_info

\* an --info line is a pair matched by device_info_re, or a line it rejects
KV(k, v) == [match |-> TRUE, k |-> k, v |-> v]

NoMatch == [match |-> FALSE]

IsMatch(line) == line.match

\* device_info: the first three lines are dropped, unmatched lines are skipped
device_info(text) == SelectSeq(SubSeq(text, 4, Len(text)), IsMatch)

device_info_map ==
    ("Vendor" :> "vendor") @@ ("Product" :> "product") @@ ("Revision" :> "revision")
    @@ ("Logical Unit id" :> "lun_id") @@ ("Model Family" :> "model_family")
    @@ ("Device Model" :> "device_model") @@ ("Serial Number" :> "serial_number")
    @@ ("Firmware Version" :> "firmware_version")

\* g[1].split(' ', 1)[0]
FirstToken(v) == IF v = <<>> THEN "" ELSE Head(v)

\* device_smart_capabilities for a device that is not nvme
SmartState(groups) ==
    {FirstToken(groups[j].v) : j \in {n \in DOMAIN groups : groups[n].k = "SMART support"}}

smart_available(groups) == "Available" \in SmartState(groups)

smart_enabled(groups) == "Enabled" \in SmartState(groups)

\* the labels of device_info: dict(groups) keeps the last value of a key
DeviceInfoLabels(device, groups) ==
    LET keys == {groups[j].k : j \in DOMAIN groups} \cap DOMAIN device_info_map
        last(k) == groups[CHOOSE j \in DOMAIN groups :
                              /\ groups[j].k = k
                              /\ \A n \in DOMAIN groups : groups[n].k = k => n <= j].v
        info == [l \in {device_info_map[k] : k \in keys} |->
                     last(CHOOSE k \in keys : device_info_map[k] = l)]
    IN info @@ base_labels(device)

\* ---------------------------------- collect_device_health_self_assessment

W_SMART == <<"S", "M", "A", "R", "T">>

W_PASSED == <<"P", "A", "S", "S", "E", "D">>

W_OK == <<"O", "K">>

\* self_test_re = ^SMART.*(PASSED|OK)$ with re.MULTILINE, searched in the output
self_test_search(text) ==
    \E j \in DOMAIN text :
        LET line == Join(text[j])
        IN /\ StartsWith(line, W_SMART)
           /\ \/ EndsWith(SubSeq(line, Len(W_SMART) + 1, Len(line)), W_PASSED)
              \/ EndsWith(SubSeq(line, Len(W_SMART) + 1, Len(line)), W_OK)

\* ------------------------------------------------- collect_ata_error_count

W_Error == <<"E", "r", "r", "o", "r", " ">>

W_occurred == <<"]", " ", "o", "c", "c", "u", "r", "r", "e", "d">>

Drop(s, n) == SubSeq(s, n + 1, Len(s))

\* ata_error_count_re = ^Error (\d+) \[\d+\] occurred on one line: the group,
\* empty when the line does not match
ErrorLineGroup(line) ==
    LET s == Join(line)
        r1 == Drop(s, Len(W_Error))
        n == LeadingDigits(r1)
        r2 == Drop(r1, Len(n))
        r3 == Drop(r2, 2)
        c == LeadingDigits(r3)
        r4 == Drop(r3, Len(c))
    IN IF /\ StartsWith(s, W_Error)
          /\ n # <<>>
          /\ StartsWith(r2, <<" ", "[">>)
          /\ c # <<>>
          /\ StartsWith(r4, W_occurred)
       THEN n ELSE <<>>

\* m.group(1) if m is not None else 0, m the first match in the output
RECURSIVE error_count(_)
error_count(text) ==
    IF text = <<>> THEN VInt(0)
    ELSE IF ErrorLineGroup(Head(text)) # <<>> THEN VStr(ErrorLineGroup(Head(text)))
    ELSE error_count(Tail(text))

\* --------------------------------------------------- collect_ata_metrics

smart_attributes_whitelist ==
    {"airflow_temperature_cel", "command_timeout", "current_pending_sector",
     "end_to_end_error", "erase_fail_count_total", "g_sense_error_rate",
     "hardware_ecc_recovered", "host_reads_mib", "host_reads_32mib", "host_writes_mib",
     "host_writes_32mib", "load_cycle_count", "lifetime_writes_gib",
     "media_wearout_indicator", "wear_leveling_count", "nand_writes_1gib",
     "offline_uncorrectable", "power_cycle_count", "power_on_hours",
     "program_fail_count", "raw_read_error_rate", "reallocated_event_count",
     "reallocated_sector_ct", "reported_uncorrect", "sata_downshift_count",
     "seek_error_rate", "spin_retry_count", "spin_up_time", "start_stop_count",
     "temperature_case", "temperature_celsius", "temperature_internal",
     "total_bad_block", "total_lbas_read", "total_lbas_written", "total_writes_gib",
     "total_reads_gib", "udma_crc_error_count", "unsafe_shutdown_count",
     "unexpect_power_loss_ct", "workld_host_reads_perc", "workld_media_wear_indic",
     "workload_minutes"}

\* str.lower on the attribute names smartctl prints; a name that has no
\* upper-case letter is its own lower-case form
LowerCaseOf ==
    ("Power_On_Hours" :> "power_on_hours")
    @@ ("Temperature_Celsius" :> "temperature_celsius")
    @@ ("Unknown_Attribute" :> "unknown_attribute")

lower(name) == IF name \in DOMAIN LowerCaseOf THEN LowerCaseOf[name] ELSE name

Dashes == <<"-", "-", "-">>

\* the state of one collect_ata_metrics call: what it has yielded, the names
\* it has reported, and whether it has raised
AtaStart == [metrics |-> <<>>, seen |-> {}, raised |-> FALSE]

\* the fields csv.DictReader maps to id, name, flag, value, worst, threshold,
\* type, updated, when_failed; what follows them is the list raw_value
AttrMetrics(device, name, fields, raw_value) ==
    LET labels == [name |-> name] @@ base_labels(device)
        threshold == IF fields[6] = Dashes THEN <<"0">> ELSE fields[6]
    IN << Metric("attr_value", labels, VStr(fields[4])),
          Metric("attr_worst", labels, VStr(fields[5])),
          Metric("attr_threshold", labels, VStr(threshold)),
          Metric("attr_raw_value", labels, VStr(raw_value)) >>

\* the filters in the order whitelist, duplicate, digits: a row is counted as
\* seen before its raw value is looked at
AtaEntry_m(device, st, fields) ==
    IF st.raised \/ fields = <<>> THEN st
    ELSE IF Len(fields) < 2 THEN [st EXCEPT !.raised = TRUE]
    ELSE LET name == lower(fields[2])
         IN IF name \notin smart_attributes_whitelist \/ name \in st.seen THEN st
            ELSE IF Len(fields) < 10 THEN [st EXCEPT !.raised = TRUE]
            ELSE LET m == LeadingDigits(Join(SubSeq(fields, 10, Len(fields))))
                 IN IF m = <<>> THEN [st EXCEPT !.seen = @ \cup {name}]
                    ELSE [st EXCEPT
                             !.metrics = @ \o AttrMetrics(device, name, fields, m),
                             !.seen = @ \cup {name}]

\* one turn of the loop at lines 283-316 on one row.  A row with a single
\* field has name None (None.lower() raises); a whitelisted row with at most
\* nine fields has no raw_value key (entry['raw_value'] raises); csv skips a
\* blank row
AtaEntry(device, st, fields) ==
    IF st.raised \/ fields = <<>> THEN st
    ELSE IF Len(fields) < 2 THEN [st EXCEPT !.raised = TRUE]
    ELSE LET name == lower(fields[2])
         IN IF name \notin smart_attributes_whitelist THEN st
            ELSE IF Len(fields) < 10 THEN [st EXCEPT !.raised = TRUE]
            ELSE LET m == LeadingDigits(Join(SubSeq(fields, 10, Len(fields))))
                 IN IF m = <<>> THEN st
                    ELSE IF name \in smart_attributes_whitelist /\ name \notin st.seen
                    THEN [st EXCEPT
                             !.metrics = @ \o AttrMetrics(device, name, fields, m),
                             !.seen = @ \cup {name}]
                    ELSE st

RECURSIVE AtaRows(_, _, _)
AtaRows(device, st, rows) ==
    IF rows = <<>> THEN st
    ELSE AtaRows(device, AtaEntry(device, st, Head(rows)), Tail(rows))

\* collect_ata_metrics on the output of --attributes: the first 7 lines are dropped
collect_ata_metrics(device, text) == AtaRows(device, AtaStart, Drop(text, 7))

\* -------------------------------------------------- collect_nvme_metrics

W_Celsius == <<" ", "C", "e", "l", "s", "i", "u", "s">>

W_Comma == <<",">>

\* value[0:-1]
DropLast(value) == SubSeq(value, 1, Len(value) - 1)

NvmeStart == [metrics |-> <<>>, raised |-> FALSE]

\* one turn of the loop at lines 350-373; a line is the list line.split(':'),
\* and unpacking it into label, value raises unless it has exactly two parts
NvmeLine(device, st, parts) ==
    IF st.raised THEN st
    ELSE IF Len(parts) # 2 THEN [st EXCEPT !.raised = TRUE]
    ELSE LET label == parts[1]
             value == parts[2]
             yield(name, v) ==
                 [st EXCEPT !.metrics = Append(@, Metric(name, base_labels(device), VStr(v)))]
         IN CASE label = "Available Spare" -> yield("available_spare_ratio", DropLast(value))
              [] label = "Available Spare Threshold" ->
                     yield("available_spare_threshold_ratio", DropLast(value))
              [] label = "Percentage Used" -> yield("percentage_used_ratio", DropLast(value))
              [] label = "Power Cycle" -> yield("power_cycles_total", value)
              [] label = "Power On Hours" ->
                     yield("power_on_hours_total", Remove(value, W_Comma))
              [] label = "Temperature" -> yield("temperature_celcius", Remove(value, W_Celsius))
              [] label = "Unsafe Shutdowns" -> yield("unsafe_shutdowns_total", value)
              [] label = "Media and Data Integrity Errors" -> yield("media_errors_total", value)
              [] label = "Error Information Log Entries" ->
                     yield("num_err_log_entries_total", value)
              [] label = "Warning Comp. Temperature Time" ->
                     yield("warning_temperature_time_total", value)
              [] label = "Critical Comp. Temperature Time" ->
                     yield("critical_temperature_time_total", value)
              [] OTHER -> st

RECURSIVE NvmeLines(_, _, _)
NvmeLines(device, st, lines) ==
    IF lines = <<>> THEN st
    ELSE NvmeLines(device, NvmeLine(device, st, Head(lines)), Tail(lines))

\* collect_nvme_metrics on the output of --attributes: the first 6 lines are dropped
collect_nvme_metrics(device, text) == NvmeLines(device, NvmeStart, Drop(text, 6))

\* ------------------------------------------------ main: sort and output

\* the metric names of the program in the order Python compares str
SortedNames ==
    << "attr_raw_value", "attr_threshold", "attr_value", "attr_worst",
       "available_spare_ratio", "available_spare_threshold_ratio",
       "critical_temperature_time_total", "device_active", "device_errors",
       "device_info", "device_smart_available", "device_smart_enabled",
       "device_smart_healthy", "media_errors_total", "num_err_log_entries_total",
       "percentage_used_ratio", "power_cycles_total", "power_on_hours_total",
       "smartctl_run", "smartctl_version", "temperature_celcius",
       "unsafe_shutdowns_total", "warning_temperature_time_total" >>

NameRank ==
    [n \in {SortedNames[k] : k \in DOMAIN SortedNames} |->
        CHOOSE k \in DOMAIN SortedNames : SortedNames[k] = n]

\* a < b on the sort keys
KeyLess(a, b) == NameRank[a.name] < NameRank[b.name]

\* an insertion in front of the equal keys: sorted, but not stable
InsertByName_m(s, m) ==
    LET p == Cardinality({k \in DOMAIN s : KeyLess(s[k], m)})
    IN SubSeq(s, 1, p) \o <<m>> \o SubSeq(s, p + 1, Len(s))

\* where list.sort puts m in an already sorted list s: behind every element
\* that does not compare greater, so that equal keys keep their order (the
\* sort is stable)
InsertByName(s, m) ==
    LET p == Cardinality({k \in DOMAIN s : ~KeyLess(m, s[k])})
    IN SubSeq(s, 1, p) \o <<m>> \o SubSeq(s, p + 1, Len(s))

\* metrics.sort(key=lambda i: i.name)
RECURSIVE SortByName(_)
SortByName(ms) ==
    IF ms = <<>> THEN <<>>
    ELSE InsertByName(SortByName(SubSeq(ms, 1, Len(ms) - 1)), ms[Len(ms)])

Prefix == "smartmon_"

NoName == "None"

\* metric_key: the prefix and the name, concatenated
metric_key(metric, prefix) == <<prefix, metric.name>>

\* metric_print_meta: the HELP line and the TYPE line
metric_print_meta(metric, prefix) ==
    << [kind |-> "HELP", key |-> metric_key(metric, prefix), name |-> metric.name],
       [kind |-> "TYPE", key |-> metric_key(metric, prefix), name |-> metric.name] >>

\* metric_format: the series line, its value the Decimal of the metric's value
metric_format(metric, prefix) ==
    [kind |-> "series", key |-> metric_key(metric, prefix), name |-> metric.name,
     labels |-> metric.labels, value |-> DecimalOf(metric.value).n]

\* metric_format raises for some metric of the list: its value is no Decimal
FormatRaises(ms) == \E k \in DOMAIN ms : ~DecimalOf(ms[k].value).ok

\* the loop at lines 430-437 from the k-th sorted metric on, lines being what
\* is written so far: the preamble of a new name is written before its first
\* series line is formatted, and the loop ends where metric_format raises
RECURSIVE PrintLoop(_, _, _, _)
PrintLoop(ms, k, previous_name, lines) ==
    IF k > Len(ms) THEN lines
    ELSE LET m == ms[k]
             with_meta == IF m.name # previous_name
                          THEN lines \o metric_print_meta(m, Prefix)
                          ELSE lines
         IN IF ~DecimalOf(m.value).ok THEN with_meta
            ELSE PrintLoop(ms, k + 1, m.name, Append(with_meta, metric_format(m, Prefix)))

\* ------------------------------------------- what smartctl may answer

SeqsUpTo(S, n) == UNION {[1..k -> S] : k \in 0..n}

\* smartctl -V: a first line with the version as its second word, or nothing
VersionOutputs == { << <<"smartctl", "7.2", "2020-12-30">> >>, << <<>> >> }

\* smartctl --scan-open: lines of shell tokens, comments removed
ScanLines ==
    { <<"/dev/sda", "-d", SatPlus0>>, <<"/dev/sdb", "--device", Scsi>>,
      <<"/dev/nvme0", "-d", Nvme>>, <<>> }

ScanOutputs == SeqsUpTo(ScanLines, MaxScanLines)

StandbyOutputs == { <<>> }

Banner == <<NoMatch, NoMatch, NoMatch>>

InfoEnabled ==
    Banner \o << NoMatch,
                 KV("Device Model", <<"WDC", "WD40EFRX">>),
                 KV("Serial Number", <<"WD-1">>),
                 KV("SMART support", <<"Available", "-", "device", "has", "SMART">>),
                 KV("SMART support", <<"Enabled">>) >>

InfoUnavailable ==
    Banner \o << NoMatch,
                 KV("Device Model", <<"WDC", "WD40EFRX">>),
                 KV("Serial Number", <<"WD-1">>),
                 KV("SMART support", <<"Unavailable", "-", "device", "lacks", "SMART">>) >>

InfoOutputs == {InfoEnabled, InfoUnavailable}

W_result == <<"r", "e", "s", "u", "l", "t", ":">>

HealthOutputs ==
    { << <<W_SMART, W_result, W_PASSED>> >>,
      << <<W_SMART, W_result, <<"F", "A", "I", "L", "E", "D", "!">>>> >> }

ErrorLogOutputs ==
    { << <<<<"N", "o">>, <<"E", "r", "r", "o", "r", "s">>>> >>,
      << <<<<"E", "r", "r", "o", "r">>, <<"3">>, <<"[", "2", "]">>,
           <<"o", "c", "c", "u", "r", "r", "e", "d">>>>,
         <<<<"E", "r", "r", "o", "r">>, <<"2">>, <<"[", "1", "]">>,
           <<"o", "c", "c", "u", "r", "r", "e", "d">>>> >> }

AtaHeader == [k \in 1..7 |-> <<"#">>]

RowPowerOnHours ==
    <<"9", "Power_On_Hours", "0x0032", <<"0", "9", "9">>, <<"0", "9", "8">>,
      <<"0", "0", "0">>, "Old_age", "Always", "-", <<"1", "2">>>>

RowPowerOnHoursNoDigits ==
    <<"9", "Power_On_Hours", "0x0032", <<"0", "9", "7">>, <<"0", "9", "6">>,
      <<"0", "0", "0">>, "Old_age", "Always", "-", <<"(", "h", ")">>>>

RowPowerOnHoursLower ==
    <<"240", "power_on_hours", "0x0032", <<"0", "5", "0">>, <<"0", "4", "9">>,
      Dashes, "Old_age", "Always", "-", <<"7">>>>

RowTemperature ==
    <<"194", "Temperature_Celsius", "0x0022", <<"0", "3", "6">>, <<"0", "4", "0">>,
      Dashes, "Old_age", "Always", "-", <<"3", "6">>, <<"(", "M", ")">>>>

RowUnknown ==
    <<"200", "Unknown_Attribute", "0x0000", <<"1", "0", "0">>, <<"1", "0", "0">>,
      <<"0", "0", "0">>, "Old_age", "Offline", "-", <<"0">>>>

RowShort ==
    <<"9", "Power_On_Hours", "0x0032", <<"0", "9", "9">>, <<"0", "9", "9">>,
      <<"0", "0", "0">>, "Old_age", "Always", "-">>

AtaRowSet ==
    {RowPowerOnHours, RowPowerOnHoursNoDigits, RowPowerOnHoursLower, RowTemperature,
     RowUnknown, RowShort}

\* every attribute table of at most MaxRows rows
AtaTables == {AtaHeader \o rows : rows \in SeqsUpTo(AtaRowSet, MaxRows)}

\* the tables smartctl answers with in a whole run
AtaOutputs ==
    { AtaHeader \o <<RowPowerOnHoursNoDigits, RowPowerOnHours, RowPowerOnHoursLower>>,
      AtaHeader \o <<RowTemperature, RowShort>> }

NvmeHeader == [k \in 1..6 |-> <<"#">>]

NvmeTemperature32 == <<"Temperature", <<" ", "3", "2", " ", "C", "e", "l", "s", "i", "u", "s">>>>

NvmeTemperature40 == <<"Temperature", <<" ", "4", "0", " ", "C", "e", "l", "s", "i", "u", "s">>>>

NvmeOutputs ==
    { NvmeHeader \o << NvmeTemperature32,
                       <<"Percentage Used", <<" ", "1", "%">>>>,
                       <<"Power On Hours", <<" ", "1", ",", "2", "3", "4">>>>,
                       <<"Data Units Read", <<" ", "5">>>> >>,
      NvmeHeader \o << NvmeTemperature32, NvmeTemperature40,
                       <<"Unsafe Shutdowns", <<" ", "1", ",", "2", "3", "4">>>> >>,
      NvmeHeader \o << NvmeTemperature32, <<"">> >> }

Timestamps == {1793640000}

\* ------------------------------------------------------- the gates

\* the standby gate with the wakeup flag read the wrong way round
SkipInactive_m(is_active, wakeup) == ~is_active /\ wakeup

\* line 388: not is_active and not wakeup_disks
SkipInactive(is_active, wakeup) == ~is_active /\ ~wakeup

\* the SMART gate read the wrong way round
SkipUnavailable_m(available) == available

\* line 403: not smart_available
SkipUnavailable(available) == ~available

\* the ATA test as an equality instead of a prefix test
IsAta_m(type) == type = Sat

\* line 408: device.type.startswith('sat')
IsAta(type) == StartsWith(type, Sat)

\* the nvme test never taken: nvme is queried like any other device
IsNvme_m(type) == FALSE

\* lines 213 and 413: device.type == 'nvme'
IsNvme(type) == type = Nvme

\* ------------------------------------------------------- the run

Init ==
    /\ pc = "version"
    /\ failure = "none"
    /\ wakeup_disks \in BOOLEAN
    /\ now \in Timestamps
    /\ devices = <<>>
    /\ i = 0
    /\ metrics = <<>>
    /\ mark = <<>>
    /\ calls = <<>>
    /\ lastCall = NoCall
    /\ sorted = <<>>
    /\ out = <<>>

\* smart_ctl(...) was invoked for device idx (0: for no device) and answered r
Invoke(idx, kind, r) ==
    /\ calls' = Append(calls, Call(idx, kind))
    /\ lastCall' = Result(idx, kind, r)

\* an exception nobody catches ends the process; nothing more is written
Abort(reason) ==
    /\ pc' = "aborted"
    /\ failure' = reason
    /\ UNCHANGED <<i, metrics, mark, out>>

\* every metric written as soon as it is yielded, instead of collected first
Yield_m(ms) ==
    /\ metrics' = metrics \o ms
    /\ out' = PrintLoop(ms, 1, NoName, out)

\* line 427: list(...) takes what the generator yields; nothing is written
\* while the list is built
Yield(ms) ==
    /\ metrics' = metrics \o ms
    /\ out' = out

\* the for loop at line 379 moves to the next device, or the generator ends
NextDevice ==
    /\ i' = i + 1
    /\ pc' = IF i + 1 > Len(devices) THEN "collected" ELSE "device"

\* lines 406-414 after the health metric: the stage the device type selects
AfterHealth(type) == IF IsAta(type) THEN "ata" ELSE IF IsNvme(type) THEN "nvme" ELSE "next"

\* line 413 after the two ATA stages
AfterAta(type) == IF IsNvme(type) THEN "nvme" ELSE "next"

Goto(stage) == IF stage = "next" THEN NextDevice ELSE pc' = stage /\ i' = i

\* main, lines 421-425: smart_ctl_version() and the version metric.  The
\* version command is checked; an empty first line has no second word
PrintVersion ==
    /\ pc = "version"
    /\ \E r \in Results(VersionOutputs) :
         /\ Invoke(0, "version", r)
         /\ IF Raises(TRUE, r.ok) \/ Len(r.out[1]) < 2
            THEN Abort("version")
            ELSE LET version_metric ==
                         Metric("smartctl_version", [version |-> r.out[1][2]], VBool(TRUE))
                 IN /\ out' = out \o metric_print_meta(version_metric, Prefix)
                                  \o <<metric_format(version_metric, Prefix)>>
                    /\ pc' = "scan"
                    /\ failure' = failure
                    /\ UNCHANGED <<i, metrics, mark>>
    /\ UNCHANGED <<wakeup_disks, now, devices, sorted>>

\* find_devices, first turn of the loop at line 379: the scan command is checked
FindDevices ==
    /\ pc = "scan"
    /\ \E r \in Results(ScanOutputs) :
         /\ Invoke(0, "scan", r)
         /\ IF Raises(TRUE, r.ok)
            THEN Abort("scan") /\ devices' = devices
            ELSE /\ devices' = find_devices(r.out)
                 /\ i' = 1
                 /\ pc' = IF find_devices(r.out) = <<>> THEN "collected" ELSE "device"
                 /\ failure' = failure
                 /\ UNCHANGED <<metrics, mark, out>>
    /\ UNCHANGED <<wakeup_disks, now, sorted>>

\* lines 380-389: smartctl_run, device_is_active (the CalledProcessError of
\* the standby probe is caught), device_active, and the standby gate
CollectDeviceActive ==
    /\ pc = "device"
    /\ \E r \in Results(StandbyOutputs) :
         LET device == devices[i]
             is_active == ~Raises(TRUE, r.ok)
         IN /\ Invoke(i, "standby", r)
            /\ Yield(<< Metric("smartctl_run", base_labels(device), VInt(now)),
                        Metric("device_active", base_labels(device), VBool(is_active)) >>)
            /\ mark' = Append(mark, Len(metrics))
            /\ Goto(IF SkipInactive(is_active, wakeup_disks) THEN "next" ELSE "info")
    /\ UNCHANGED <<failure, wakeup_disks, now, devices, sorted>>

\* line 391, collect_device_info: --info is checked
CollectDeviceInfo ==
    /\ pc = "info"
    /\ \E r \in Results(InfoOutputs) :
         /\ Invoke(i, "info", r)
         /\ IF Raises(TRUE, r.ok)
            THEN Abort("info")
            ELSE /\ Yield(<< Metric("device_info",
                                    DeviceInfoLabels(devices[i], device_info(r.out)),
                                    VBool(TRUE)) >>)
                 /\ pc' = "caps"
                 /\ failure' = failure
                 /\ UNCHANGED <<i, mark>>
    /\ UNCHANGED <<wakeup_disks, now, devices, sorted>>

\* lines 393-404, device_smart_capabilities: nvme is capable without a query,
\* any other device is asked for --info once more; then the SMART gate
CollectSmartCapabilities ==
    /\ pc = "caps"
    /\ LET device == devices[i]
           emit(available, enabled) ==
               /\ Yield(<< Metric("device_smart_available", base_labels(device),
                                  VBool(available)),
                           Metric("device_smart_enabled", base_labels(device),
                                  VBool(enabled)) >>)
               /\ Goto(IF SkipUnavailable(available) THEN "next" ELSE "health")
               /\ failure' = failure
               /\ mark' = mark
       IN IF IsNvme(device.type)
          THEN emit(TRUE, TRUE) /\ UNCHANGED <<calls, lastCall>>
          ELSE \E r \in Results(InfoOutputs) :
                 /\ Invoke(i, "info", r)
                 /\ IF Raises(TRUE, r.ok)
                    THEN Abort("info")
                    ELSE emit(smart_available(device_info(r.out)),
                              smart_enabled(device_info(r.out)))
    /\ UNCHANGED <<wakeup_disks, now, devices, sorted>>

\* line 406, collect_device_health_self_assessment: --health with check=False
CollectHealth ==
    /\ pc = "health"
    /\ \E r \in Results(HealthOutputs) :
         /\ Invoke(i, "health", r)
         /\ IF Raises(FALSE, r.ok)
            THEN Abort("health")
            ELSE /\ Yield(<< Metric("device_smart_healthy", base_labels(devices[i]),
                                    VBool(self_test_search(r.out))) >>)
                 /\ Goto(AfterHealth(devices[i].type))
                 /\ failure' = failure
                 /\ mark' = mark
    /\ UNCHANGED <<wakeup_disks, now, devices, sorted>>

\* line 409, collect_ata_metrics: --attributes is checked; an exception of
\* the row loop leaves the generator like a failed command
CollectAtaMetrics(outputs) ==
    /\ pc = "ata"
    /\ \E r \in Results(outputs) :
         /\ Invoke(i, "attributes", r)
         /\ IF Raises(TRUE, r.ok)
            THEN Abort("attributes")
            ELSE LET st == collect_ata_metrics(devices[i], r.out)
                 IN IF st.raised
                    THEN /\ pc' = "aborted"
                         /\ failure' = "parse"
                         /\ Yield(st.metrics)
                         /\ UNCHANGED <<i, mark>>
                    ELSE /\ Yield(st.metrics)
                         /\ pc' = "errors"
                         /\ failure' = failure
                         /\ UNCHANGED <<i, mark>>
    /\ UNCHANGED <<wakeup_disks, now, devices, sorted>>

\* line 411, collect_ata_error_count: the error log query with check=False
CollectAtaErrorCount ==
    /\ pc = "errors"
    /\ \E r \in Results(ErrorLogOutputs) :
         /\ Invoke(i, "errorlog", r)
         /\ IF Raises(FALSE, r.ok)
            THEN Abort("errorlog")
            ELSE /\ Yield(<< Metric("device_errors", base_labels(devices[i]),
                                    error_count(r.out)) >>)
                 /\ Goto(AfterAta(devices[i].type))
                 /\ failure' = failure
                 /\ mark' = mark
    /\ UNCHANGED <<wakeup_disks, now, devices, sorted>>

\* line 414, collect_nvme_metrics: --attributes is checked; a line that does
\* not split in two raises ValueError
CollectNvmeMetrics ==
    /\ pc = "nvme"
    /\ \E r \in Results(NvmeOutputs) :
         /\ Invoke(i, "attributes", r)
         /\ IF Raises(TRUE, r.ok)
            THEN Abort("attributes")
            ELSE LET st == collect_nvme_metrics(devices[i], r.out)
                 IN IF st.raised
                    THEN /\ pc' = "aborted"
                         /\ failure' = "parse"
                         /\ Yield(st.metrics)
                         /\ UNCHANGED <<i, mark>>
                    ELSE /\ Yield(st.metrics)
                         /\ Goto("next")
                         /\ failure' = failure
                         /\ mark' = mark
    /\ UNCHANGED <<wakeup_disks, now, devices, sorted>>

\* main, lines 427-437 once the generator is exhausted: the sort, then the
\* output loop, which ends early when a value is no Decimal
PrintMetrics ==
    /\ pc = "collected"
    /\ sorted' = SortByName(metrics)
    /\ out' = PrintLoop(sorted', 1, NoName, out)
    /\ pc' = IF FormatRaises(metrics) THEN "aborted" ELSE "done"
    /\ failure' = IF FormatRaises(metrics) THEN "format" ELSE failure
    /\ UNCHANGED <<wakeup_disks, now, devices, i, metrics, mark, calls, lastCall>>

Next ==
    \/ PrintVersion
    \/ FindDevices
    \/ CollectDeviceActive
    \/ CollectDeviceInfo
    \/ CollectSmartCapabilities
    \/ CollectHealth
    \/ CollectAtaMetrics(AtaOutputs)
    \/ CollectAtaErrorCount
    \/ CollectNvmeMetrics
    \/ PrintMetrics

Spec == Init /\ [][Next]_vars

\* one call of collect_ata_metrics for a device, on any attribute table of
\* at most MaxRows rows
InitAta ==
    /\ pc = "ata"
    /\ failure = "none"
    /\ wakeup_disks \in BOOLEAN
    /\ now \in Timestamps
    /\ devices \in {find_devices(<<line>>) : line \in {l \in ScanLines : l # <<>> /\ IsAta(l[3])}}
    /\ i = 1
    /\ metrics = <<>>
    /\ mark = <<0>>
    /\ calls = <<>>
    /\ lastCall = NoCall
    /\ sorted = <<>>
    /\ out = <<>>

NextAta == CollectAtaMetrics(AtaTables)

SpecAta == InitAta /\ [][NextAta]_vars

\* ------------------------------------------------------ observations

\* the metrics device k has yielded
DevMetrics(k) ==
    SubSeq(metrics, mark[k] + 1, IF k < Len(mark) THEN mark[k + 1] ELSE Len(metrics))

Names(ms) == [j \in DOMAIN ms |-> ms[j].name]

\* the kinds of the commands invoked for device k, in order
CallKinds(k) ==
    LET own == SelectSeq(calls, LAMBDA c : c.idx = k)
    IN [j \in DOMAIN own |-> own[j].kind]

Count(k, kind) == Cardinality({j \in DOMAIN calls : calls[j] = Call(k, kind)})

\* the generator has moved past device k
Left(k) == k \in DOMAIN mark /\ k < i

WithName(ms, n) == SelectSeq(ms, LAMBDA m : m.name = n)

AttrNames == {"attr_value", "attr_worst", "attr_threshold", "attr_raw_value"}

NvmeNames ==
    {"available_spare_ratio", "available_spare_threshold_ratio", "percentage_used_ratio",
     "power_cycles_total", "power_on_hours_total", "temperature_celcius",
     "unsafe_shutdowns_total", "media_errors_total", "num_err_log_entries_total",
     "warning_temperature_time_total", "critical_temperature_time_total"}

VersionMetric == Metric("smartctl_version", [version |-> "7.2"], VBool(TRUE))

\* ------------------------------------------------------------ claims

\* C1: a device whose standby probe reports it inactive while the wakeup
\* flag is false yields exactly two metrics, smartctl_run and then
\* device_active = false; only the standby probe is invoked for it, and the
\* generator has moved on to the next device.
C1_InactiveDeviceYieldsTwoMetrics ==
    \A k \in DOMAIN mark :
        LET ms == DevMetrics(k)
        IN (Len(ms) >= 2 /\ ms[2].value = VBool(FALSE) /\ ~wakeup_disks)
           => /\ Names(ms) = <<"smartctl_run", "device_active">>
              /\ CallKinds(k) = <<"standby">>
              /\ Left(k)

\* an inactive device was skipped without the wakeup flag and the next
\* device has been started
C1_Witness ==
    \E k \in DOMAIN mark :
        /\ ~wakeup_disks
        /\ DevMetrics(k)[2].value = VBool(FALSE)
        /\ Len(mark) > k
        /\ Len(metrics) > mark[k + 1] + 2

\* C2: a device that passes the activity gate and whose capability probe
\* returns available = false yields exactly smartctl_run, device_active,
\* device_info, device_smart_available and device_smart_enabled; the only
\* commands invoked for it are the standby probe and the two --info queries.
C2_UnavailableDeviceStopsAfterInfo ==
    \A k \in DOMAIN mark :
        LET ms == DevMetrics(k)
        IN (Len(ms) >= 4 /\ ms[4].name = "device_smart_available"
                         /\ ms[4].value = VBool(FALSE))
           => /\ Names(ms) = <<"smartctl_run", "device_active", "device_info",
                               "device_smart_available", "device_smart_enabled">>
              /\ CallKinds(k) = <<"standby", "info", "info">>
              /\ Left(k)

\* a device without SMART was left after its info metrics and the run went on
C2_Witness ==
    \E k \in DOMAIN mark :
        /\ Len(DevMetrics(k)) = 5
        /\ DevMetrics(k)[4].value = VBool(FALSE)
        /\ Len(mark) > k
        /\ pc = "done"

\* C3: the list of metrics of one run never holds two metrics with the same
\* name and the same labels but different values.
C3_UniqueSeriesKey ==
    \A a, b \in DOMAIN metrics :
        (metrics[a].name = metrics[b].name /\ metrics[a].labels = metrics[b].labels)
        => metrics[a].value = metrics[b].value

IsSeries(line) == line.kind = "series"

\* the series lines written so far for the device metrics
DeviceSeriesLines == SelectSeq(SubSeq(out, 4, Len(out)), IsSeries)

\* C4: once the metrics are sorted, every name has the same metrics in the
\* same order as collected (the sort is stable) and the names do not
\* decrease; the series lines written are those of the sorted metrics, in
\* order, all of them when the run is done; no name has more than one HELP
\* and one TYPE line in the whole output; a series line that does not follow
\* a series line of its name (so the first of every name) directly follows
\* the HELP line and the TYPE line of its name; and in a finished run every
\* TYPE line is followed by a series line of its name.
C4_SortedOutputOnePreamble ==
    /\ pc \in {"done", "aborted"} /\ failure \in {"none", "format"}
       => /\ Len(sorted) = Len(metrics)
          /\ \A n \in DOMAIN NameRank : WithName(sorted, n) = WithName(metrics, n)
          /\ \A j \in 1..(Len(sorted) - 1) :
                 NameRank[sorted[j].name] <= NameRank[sorted[j + 1].name]
    /\ LET lines == DeviceSeriesLines
       IN /\ Len(lines) <= Len(sorted)
          /\ pc = "done" => Len(lines) = Len(sorted)
          /\ \A j \in DOMAIN lines : lines[j] = metric_format(sorted[j], Prefix)
    /\ \A p \in DOMAIN out :
           out[p].kind # "series"
           => \A q \in 1..(p - 1) : out[q].kind # out[p].kind \/ out[q].name # out[p].name
    /\ \A p \in DOMAIN out :
           (out[p].kind = "series"
            /\ (p = 1 \/ out[p - 1].kind # "series" \/ out[p - 1].name # out[p].name))
           => /\ p >= 3
              /\ out[p - 2].kind = "HELP" /\ out[p - 2].name = out[p].name
              /\ out[p - 1].kind = "TYPE" /\ out[p - 1].name = out[p].name
    /\ pc = "done"
       => \A p \in DOMAIN out :
              out[p].kind = "TYPE"
              => p < Len(out) /\ out[p + 1].kind = "series" /\ out[p + 1].name = out[p].name

\* a finished run of two devices where a name has two series lines, written
\* in the order collected, under one preamble
C4_Witness ==
    /\ pc = "done"
    /\ Len(devices) = 2
    /\ \E p \in DOMAIN out :
           /\ p < Len(out)
           /\ out[p].kind = "series" /\ out[p + 1].kind = "series"
           /\ out[p].name = "device_active" /\ out[p + 1].name = "device_active"
           /\ out[p].labels # out[p + 1].labels
           /\ out[p].value = 1 /\ out[p + 1].value = 0

\* the rows of the attribute table that was read last
TableRows == Drop(lastCall.out, 7)

\* a row on which the loop raises: a single field, or a whitelisted name
\* with no raw value field
RowRaises(f) ==
    f # <<>> /\ (Len(f) < 2 \/ (lower(f[2]) \in smart_attributes_whitelist /\ Len(f) < 10))

\* the rows the loop has gone through without raising
Consumed == {j \in DOMAIN TableRows : \A h \in 1..j : ~RowRaises(TableRows[h])}

Carries(f, n) == Len(f) >= 2 /\ lower(f[2]) = n

RawText(f) == Join(SubSeq(f, 10, Len(f)))

HasLeadingDigits(f) == Len(f) >= 10 /\ RawText(f) # <<>> /\ RawText(f)[1] \in Digits

\* the metrics yielded under the attribute name n
ForAttribute(n) == SelectSeq(metrics, LAMBDA m : m.labels.name = n)

Lowest(S) == CHOOSE j \in S : \A h \in S : j <= h

\* C5 as stated: the metrics of a whitelisted name come from the first row
\* of the table that carries the name, whatever its raw value, and there
\* are at most four of them.
C5_OnlyFirstRowOfNameEmits ==
    (lastCall.kind = "attributes" /\ lastCall.ok)
    => \A n \in smart_attributes_whitelist :
           LET carriers == {j \in Consumed : Carries(TableRows[j], n)}
               ms == ForAttribute(n)
           IN ms # <<>>
              => /\ Len(ms) <= 4
                 /\ carriers # {}
                 /\ ms[1].value = VStr(TableRows[Lowest(carriers)][4])

\* C5 as amended: the metrics of a whitelisted name come from the first row
\* that carries the name and whose raw value begins with a digit: they are
\* attr_value, attr_worst, attr_threshold and attr_raw_value of that row,
\* once; rows before it whose raw value has no leading digit suppress
\* nothing, every later row of the name is suppressed, and a name without
\* such a row yields nothing.
C5_FirstRowWithDigitsEmits ==
    (lastCall.kind = "attributes" /\ lastCall.ok)
    => /\ \A j \in DOMAIN metrics : metrics[j].labels.name \in smart_attributes_whitelist
       /\ \A n \in smart_attributes_whitelist :
              LET emitting == {j \in Consumed : /\ Carries(TableRows[j], n)
                                                /\ HasLeadingDigits(TableRows[j])}
                  ms == ForAttribute(n)
              IN IF emitting = {} THEN ms = <<>>
                 ELSE LET f == TableRows[Lowest(emitting)]
                      IN /\ Names(ms) = <<"attr_value", "attr_worst", "attr_threshold",
                                          "attr_raw_value">>
                         /\ ms[1].value = VStr(f[4])
                         /\ ms[2].value = VStr(f[5])
                         /\ ms[3].value = VStr(IF f[6] = <<"-", "-", "-">> THEN <<"0">>
                                               ELSE f[6])
                         /\ ms[4].value = VStr(LeadingDigits(RawText(f)))

\* a table whose first row of power_on_hours has no leading digit, whose
\* second row of that name is emitted and whose third is suppressed
C5_Witness ==
    /\ lastCall.kind = "attributes" /\ lastCall.ok
    /\ TableRows = <<RowPowerOnHoursNoDigits, RowPowerOnHours, RowPowerOnHoursLower>>
    /\ Len(metrics) = 4
    /\ metrics[1].value = VStr(RowPowerOnHours[4])
    /\ pc = "errors"

\* C6: a failure of one device's --attributes command, or a malformed line
\* in its attribute output, never ends the run.
C6_AttributeFailureStaysLocal ==
    ~(pc = "aborted" /\ lastCall.kind = "attributes" /\ failure \in {"attributes", "parse"})

\* C7 as stated: no kind of query is issued twice for one device, and the
\* scan and the version command are issued at most once.
C7_EveryQueryAtMostOnce ==
    \A k \in 0..Len(devices) :
        \A kind \in {"version", "scan", "standby", "info", "health", "attributes",
                     "errorlog"} :
            Count(k, kind) <= 1

\* C7 as amended: for every device each kind of query is issued at most
\* once, except --info, which is issued at most twice, and then only for
\* a device that is not nvme; the version and the scan command are issued
\* at most once, and exactly once in a run that is done.
C7_OnlyInfoQueriedTwice ==
    /\ \A a, b \in DOMAIN calls :
           (a < b /\ calls[a] = calls[b])
           => /\ calls[a].kind = "info"
              /\ devices[calls[a].idx].type # Nvme
              /\ \A c \in DOMAIN calls : calls[c] = calls[a] => c \in {a, b}
    /\ \A j \in DOMAIN calls : calls[j].kind \in {"version", "scan"} <=> calls[j].idx = 0
    /\ pc = "done" => Count(0, "version") = 1 /\ Count(0, "scan") = 1

\* a finished run in which --info was issued twice for a device and once
\* for an nvme device
C7_Witness ==
    /\ pc = "done"
    /\ \E k \in DOMAIN devices : Count(k, "info") = 2
    /\ \E k \in DOMAIN devices : devices[k].type = Nvme /\ Count(k, "info") = 1

\* C8: a failing standby probe, a non-zero exit of the health query and a
\* non-zero exit of the error log query never end the run; the metric they
\* yield is device_active = false, device_smart_healthy = whether the output
\* has a PASSED/OK line, and device_errors = the count of the first error
\* line or 0; and the generator has gone on to the next stage or device.
C8_ToleratedFailures ==
    /\ failure \notin {"standby", "health", "errorlog"}
    /\ (lastCall.kind \in {"standby", "health", "errorlog"} /\ ~lastCall.ok)
       => LET device == devices[lastCall.idx]
              last == metrics[Len(metrics)]
          IN /\ failure \in {"none", "format"}
             /\ lastCall.kind = "standby"
                => /\ last = Metric("device_active", base_labels(device), VBool(FALSE))
                   /\ pc # "device" \/ i > lastCall.idx
             /\ lastCall.kind = "health"
                => /\ last = Metric("device_smart_healthy", base_labels(device),
                                    VBool(\E j \in DOMAIN lastCall.out :
                                              /\ StartsWith(Join(lastCall.out[j]), W_SMART)
                                              /\ \/ EndsWith(Join(lastCall.out[j]), W_PASSED)
                                                 \/ EndsWith(Join(lastCall.out[j]), W_OK)))
                   /\ pc # "health" \/ i > lastCall.idx
             /\ lastCall.kind = "errorlog"
                => /\ last.name = "device_errors"
                   /\ last.labels = base_labels(device)
                   /\ LET hits == {j \in DOMAIN lastCall.out :
                                       ErrorLineGroup(lastCall.out[j]) # <<>>}
                      IN last.value =
                             IF hits = {} THEN VInt(0)
                             ELSE VStr(ErrorLineGroup(lastCall.out[
                                      CHOOSE j \in hits : \A h \in hits : j <= h]))
                   /\ pc # "errors" \/ i > lastCall.idx

\* the health query exited non-zero with a PASSED line: the device is
\* reported healthy and its ATA stage is next
C8_Witness ==
    /\ lastCall.kind = "health"
    /\ ~lastCall.ok
    /\ metrics[Len(metrics)].value = VBool(TRUE)
    /\ pc = "ata"

\* C9: for a device the generator has left and that passed both gates,
\* device_smart_healthy is the sixth metric, and what follows is decided by
\* the selector: the attr_ metrics and then device_errors, with the
\* attribute and error log queries, exactly when the selector begins with
\* sat; NVMe metrics only, with the attribute query, exactly when it is
\* nvme; and nothing after the health query otherwise.
C9_StageChosenBySelector ==
    \A k \in DOMAIN mark :
        LET ms == DevMetrics(k)
            type == devices[k].type
            rest == SubSeq(ms, 7, Len(ms))
            sat == Len(type) >= 3 /\ type[1] = "s" /\ type[2] = "a" /\ type[3] = "t"
            nvme == type = <<"n", "v", "m", "e">>
            ata_ran == /\ CallKinds(k) = <<"standby", "info", "info", "health",
                                          "attributes", "errorlog">>
                       /\ rest # <<>>
                       /\ rest[Len(rest)].name = "device_errors"
                       /\ \A j \in 1..(Len(rest) - 1) : rest[j].name \in AttrNames
            nvme_ran == /\ CallKinds(k) = <<"standby", "info", "health", "attributes">>
                        /\ \A j \in DOMAIN rest : rest[j].name \in NvmeNames
            none_ran == /\ CallKinds(k) = <<"standby", "info", "info", "health">>
                        /\ rest = <<>>
        IN (Left(k) /\ Len(ms) >= 6)
           => /\ ms[6].name = "device_smart_healthy"
              /\ sat <=> ata_ran
              /\ nvme <=> nvme_ran
              /\ ~(ata_ran /\ nvme_ran)
              /\ (~sat /\ ~nvme) <=> none_ran

\* a sat+0 device and an nvme device have both been collected to the end
C9_Witness ==
    /\ pc = "done"
    /\ \E k \in DOMAIN mark :
           /\ devices[k].type = SatPlus0
           /\ Len(DevMetrics(k)) = 11
           /\ DevMetrics(k)[11].name = "device_errors"
    /\ \E k \in DOMAIN mark :
           /\ devices[k].type = Nvme
           /\ Len(DevMetrics(k)) > 6

\* C10: nothing but the version metric is written while the metrics are
\* collected, and a run ended by a failed scan, --info or --attributes
\* command or by a parse error has written exactly the preamble and the
\* series line of the version metric.
C10_AllOrNothing ==
    /\ pc \notin {"done", "aborted"} => \A p \in DOMAIN out : out[p].name = "smartctl_version"
    /\ failure \in {"scan", "info", "attributes", "parse"}
       => out = metric_print_meta(VersionMetric, Prefix)
                    \o <<metric_format(VersionMetric, Prefix)>>

\* the second device's attribute query failed after the first device was
\* collected to the end: only the version metric is on stdout
C10_Witness ==
    /\ failure \in {"attributes", "parse"}
    /\ i = 2
    /\ Len(DevMetrics(1)) >= 6
    /\ Len(out) = 3

====
